---- MODULE Spec2Model ----
(***************************************************************************)
(* A model of the job-portal REST API of backend/server.py: the three      *)
(* MongoDB collections (users, jobs, applications) and the request         *)
(* handlers that read and write them.                                      *)
(*                                                                         *)
(* Values.  Every field value of a document, request or response is a      *)
(* record [k, s, t]: k is the Python type ("str", "datetime", "None",      *)
(* "list", "int"), s names the text of a string and t is an instant (for   *)
(* a datetime, and for the string that is the ISO-8601 text of that        *)
(* instant), a uuid's serial number, or an int's value.  Strings come from *)
(* a small vocabulary; the two facts the code asks of a string, whether it *)
(* contains a 'T' and whether datetime.fromisoformat accepts it, are       *)
(* tabulated for that vocabulary.                                          *)
(*                                                                         *)
(* Ids and time.  uuid4 gives an id no document has yet: the ids are       *)
(* numbered in the order they are drawn.  datetime.now gives the tick of   *)
(* a clock that advances with every document created.                      *)
(*                                                                         *)
(* Responses.  last is the request processed last with its HTTP status and *)
(* its body, a sequence of documents (empty for an error or a message).    *)
(* An exception a handler does not catch is status 500.                    *)
(***************************************************************************)
EXTENDS Integers, Sequences, FiniteSets, TLC

VARIABLES
    users,         \* db.users: the stored user documents, in insertion order
    jobs,          \* db.jobs
    applications,  \* db.applications
    clock,         \* datetime.now(timezone.utc), as a tick count
    nextId,        \* serial number of the next uuid4
    last,          \* the request processed last and its response
    reqs           \* the requests in flight, each at one of its awaits

vars == <<users, jobs, applications, clock, nextId, last, reqs>>
store == <<users, jobs, applications>>

----------------------------------------------------------------------------
(* Bounds of the model *)

MaxUsers == 2
MaxJobs == 3
MaxApps == 2
MaxAppJobs == 1
MaxReqs == 2
MaxAllApps == 1

----------------------------------------------------------------------------
(* Values *)

Str(s) == [k |-> "str", s |-> s, t |-> 0]
IsoText(t) == [k |-> "str", s |-> "iso8601", t |-> t]
DateTime(t) == [k |-> "datetime", s |-> "", t |-> t]
None == [k |-> "None", s |-> "", t |-> 0]
Uuid(n) == [k |-> "str", s |-> "uuid4", t |-> n]
IntVal(n) == [k |-> "int", s |-> "", t |-> n]
List(s) == [k |-> "list", s |-> s, t |-> 0]

\* the words of the vocabulary that contain an upper-case 'T' and are not
\* ISO-8601 texts ("Test User", "Tech Corp")
WordsWithT == {"Test User", "Tech Corp"}

\* 'T' in value
ContainsT(v) == v.s = "iso8601" \/ v.s \in WordsWithT

\* datetime.isoformat()
isoformat(v) == IsoText(v.t)

\* datetime.fromisoformat(value.replace('Z', '+00:00')) raises ValueError
\* unless the text is an ISO-8601 date-time
fromisoformat_raises(v) == v.s # "iso8601"
fromisoformat(v) == DateTime(v.t)

prepare_for_mongo(data) ==
    [key \in DOMAIN data |->
        IF data[key].k = "datetime" THEN isoformat(data[key]) ELSE data[key]]

parse_from_mongo(item) ==
    [key \in DOMAIN item |->
        IF item[key].k = "str" /\ ContainsT(item[key])
        THEN IF fromisoformat_raises(item[key]) THEN item[key]
             ELSE fromisoformat(item[key])
        ELSE item[key]]

\* pydantic field validation
IsStr(v) == v.k = "str"
IsOptStr(v) == v.k \in {"str", "None"}
IsDatetime(v) == v.k = "datetime" \/ (v.k = "str" /\ ~fromisoformat_raises(v))
AsDatetime(v) == IF v.k = "datetime" THEN v ELSE fromisoformat(v)

----------------------------------------------------------------------------
(* The document store *)

\* a document matches a query dict when every queried field is equal
Matches(doc, query) ==
    \A key \in DOMAIN query : key \in DOMAIN doc /\ doc[key] = query[key]

\* collection.find_one(query): the position of the first matching document,
\* 0 for None
find_one(coll, query) ==
    IF \E i \in 1..Len(coll) : Matches(coll[i], query)
    THEN CHOOSE i \in 1..Len(coll) :
            /\ Matches(coll[i], query)
            /\ \A j \in 1..(i - 1) : ~Matches(coll[j], query)
    ELSE 0

\* collection.insert_one(doc)
insert_one(coll, doc) == Append(coll, doc)

\* an update that sets the fields in every document of the collection
update_one_Every(coll, query, fields) ==
    [i \in 1..Len(coll) |->
        [key \in DOMAIN coll[i] \cup DOMAIN fields |->
            IF key \in DOMAIN fields THEN fields[key] ELSE coll[i][key]]]

\* collection.update_one(query, {"$set": fields}): the first matching
\* document gets the given fields, the others are left alone
update_one(coll, query, fields) ==
    LET i == find_one(coll, query) IN
    IF i = 0 THEN coll
    ELSE [coll EXCEPT ![i] =
            [key \in DOMAIN coll[i] \cup DOMAIN fields |->
                IF key \in DOMAIN fields THEN fields[key] ELSE coll[i][key]]]

\* collection.count_documents(query)
count_documents(coll, query) ==
    Cardinality({i \in 1..Len(coll) : Matches(coll[i], query)})

----------------------------------------------------------------------------
(* Schemas *)

\* User(**user_dict): id, created_at and the optional profile fields take
\* their defaults.  bio stands for the optional profile fields
\* (profile_image, title, location, bio, company, experience, education,
\* resume), which are all Optional[str] = None.
User(user_dict, id, now) ==
    [id |-> Uuid(id), email |-> user_dict.email,
     password |-> user_dict.password, name |-> user_dict.name,
     user_type |-> user_dict.user_type, bio |-> None,
     created_at |-> DateTime(now)]

\* UserResponse(**user) raises ValidationError unless the fields have their
\* types; the password is not a field of the response
UserResponseRaises(user) ==
    ~ /\ IsStr(user.id) /\ IsStr(user.email) /\ IsStr(user.name)
      /\ IsStr(user.user_type) /\ IsOptStr(user.bio)
      /\ IsDatetime(user.created_at)

UserResponse(user) ==
    [id |-> user.id, email |-> user.email, name |-> user.name,
     user_type |-> user.user_type, bio |-> user.bio,
     created_at |-> AsDatetime(user.created_at)]

\* Job(**job_dict): id, posted_at, expires_at and status take their defaults
Job(job_dict, id, now) ==
    [id |-> Uuid(id), title |-> job_dict.title, company |-> job_dict.company,
     location |-> job_dict.location, job_type |-> job_dict.job_type,
     salary_range |-> job_dict.salary_range,
     description |-> job_dict.description,
     requirements |-> job_dict.requirements, benefits |-> job_dict.benefits,
     employer_id |-> job_dict.employer_id, posted_at |-> DateTime(now),
     expires_at |-> None, status |-> Str("active")]

\* JobResponse(**job) raises ValidationError unless the fields have their
\* types; expires_at is not a field of the response
JobResponseRaises(job) ==
    ~ /\ IsStr(job.id) /\ IsStr(job.title) /\ IsStr(job.company)
      /\ IsStr(job.location) /\ IsStr(job.job_type)
      /\ IsOptStr(job.salary_range) /\ IsStr(job.description)
      /\ job.requirements.k = "list" /\ job.benefits.k = "list"
      /\ IsStr(job.employer_id) /\ IsDatetime(job.posted_at)
      /\ IsStr(job.status)

JobResponse(job) ==
    [id |-> job.id, title |-> job.title, company |-> job.company,
     location |-> job.location, job_type |-> job.job_type,
     salary_range |-> job.salary_range, description |-> job.description,
     requirements |-> job.requirements, benefits |-> job.benefits,
     employer_id |-> job.employer_id,
     posted_at |-> AsDatetime(job.posted_at), status |-> job.status]

\* an Application whose status defaults to "reviewed"
Application_Reviewed(app_dict, id, now) ==
    [id |-> Uuid(id), job_id |-> app_dict.job_id,
     applicant_id |-> app_dict.applicant_id,
     cover_letter |-> app_dict.cover_letter, status |-> Str("reviewed"),
     applied_at |-> DateTime(now), notes |-> None]

\* Application(**app_dict): id, status, applied_at and notes take their
\* defaults
Application(app_dict, id, now) ==
    [id |-> Uuid(id), job_id |-> app_dict.job_id,
     applicant_id |-> app_dict.applicant_id,
     cover_letter |-> app_dict.cover_letter, status |-> Str("pending"),
     applied_at |-> DateTime(now), notes |-> None]

\* a dict with the fields of ApplicationResponse, those it does not have
\* at their default None
WithDefaults(data) ==
    [key \in DOMAIN data \cup {"job_title", "company", "applicant_name"} |->
        IF key \in DOMAIN data THEN data[key] ELSE None]

\* ApplicationResponse(**data) raises ValidationError unless the fields
\* have their types; notes is not a field of the response
ApplicationResponseRaises(data) ==
    LET d == WithDefaults(data) IN
    ~ /\ IsStr(d.id) /\ IsStr(d.job_id) /\ IsStr(d.applicant_id)
      /\ IsOptStr(d.cover_letter) /\ IsStr(d.status)
      /\ IsDatetime(d.applied_at) /\ IsOptStr(d.job_title)
      /\ IsOptStr(d.company) /\ IsOptStr(d.applicant_name)

ApplicationResponse(data) ==
    LET d == WithDefaults(data) IN
    [id |-> d.id, job_id |-> d.job_id, applicant_id |-> d.applicant_id,
     cover_letter |-> d.cover_letter, status |-> d.status,
     applied_at |-> AsDatetime(d.applied_at), job_title |-> d.job_title,
     company |-> d.company, applicant_name |-> d.applicant_name]

----------------------------------------------------------------------------
(* Requests *)

Emails == {Str("ann@x.io"), Str("bob@x.io")}
Passwords == {Str("pw1"), Str("pw2")}

\* POST /auth/register payloads (UserCreate: four str fields, no validation
\* beyond the type)
UserCreates ==
    { [email |-> Str("ann@x.io"), password |-> Str("pw1"),
       name |-> Str("Ann"), user_type |-> Str("job_seeker")],
      [email |-> Str("bob@x.io"), password |-> Str("pw1"),
       name |-> Str("Test User"), user_type |-> Str("employer")],
      [email |-> Str("bob@x.io"), password |-> Str("pw2"),
       name |-> IsoText(0), user_type |-> Str("employer")] }

\* POST /auth/login payloads
UserLogins == [email : Emails, password : Passwords]

\* path parameter user_id: the ids the server has handed out, and one it
\* never does
UserIds == {Uuid(n) : n \in 0..MaxUsers}

\* PUT /users/{id}/profile bodies: an open dict
ProfileDatas == { [email |-> Str("ann@x.io")], [name |-> Str("Zed")] }

\* POST /jobs payloads (JobCreate)
JobCreates ==
    { [title |-> Str("Dev"), company |-> Str("acme"),
       location |-> Str("Paris"), job_type |-> Str("full-time"),
       salary_range |-> None, description |-> Str("build things"),
       requirements |-> List("[]"), benefits |-> List("[]")],
      [title |-> Str("Tech Lead"), company |-> Str("Tech Corp"),
       location |-> Str("Remote"), job_type |-> Str("part-time"),
       salary_range |-> Str("50k"), description |-> Str("lead things"),
       requirements |-> List("[python]"), benefits |-> List("[tea]")],
      [title |-> IsoText(0), company |-> Str("acme"),
       location |-> Str("Paris"), job_type |-> Str("full-time"),
       salary_range |-> None, description |-> Str("build things"),
       requirements |-> List("[]"), benefits |-> List("[]")] }

\* query parameter employer_id: any string the caller sends
EmployerIds == {Uuid(1)}

\* path parameter job_id
JobIds == {Uuid(n) : n \in 0..MaxJobs} \cup {Uuid(101)}

\* GET /jobs parameters: skip and limit are ints (here not negative), the
\* filters are absent, empty or a text
DefaultSkip == 0
DefaultLimit == 20
Skips == {DefaultSkip, 1}
Limits == {0, 1, DefaultLimit}
Searches == {None, Str("tech")}
Locations == {None, Str("paris")}
JobTypes == {None, Str(""), Str("full-time")}

\* pattern p, taken case-insensitively, is found in text s: for the
\* patterns and the texts of the vocabulary
RegexHits == { <<"tech", "Tech Lead">>, <<"tech", "Tech Corp">>,
               <<"paris", "Paris">> }

\* {"$regex": pattern, "$options": "i"}
regex_i(pattern, v) == v.k = "str" /\ <<pattern.s, v.s>> \in RegexHits

\* Python truth of an Optional[str]: None and "" are false
Truthy(v) == v.k = "str" /\ v.s # ""

\* POST /applications payloads (ApplicationCreate) and the applicant_id
\* parameter: ids the server has handed out or not, whatever they name
AppliedJobIds == {Uuid(1), Uuid(2)}
ApplicationCreates == [job_id : AppliedJobIds, cover_letter : {Str("hire me")}]
ApplicantIds == {Uuid(1), Uuid(2)}

\* GET /dashboard/stats parameter user_type: any string
UserTypes == {Str("job_seeker"), Str("employer")}

NoBody == << >>

Respond(op, arg, status, body) ==
    last' = [op |-> op, arg |-> arg, status |-> status, body |-> body]

----------------------------------------------------------------------------
(* Handlers, each processed as a whole *)

\* a pre-check that asks for the email and the password together
RegisterQuery_Credentials(user_data) ==
    [email |-> user_data.email, password |-> user_data.password]

\* the query of the pre-check of register_user
RegisterQuery(user_data) == [email |-> user_data.email]

\* the query of login_user: both fields, compared as stored
LoginQuery(login_data) ==
    [email |-> login_data.email, password |-> login_data.password]

register_user(user_data) ==
    LET existing_user == find_one(users, RegisterQuery(user_data))
        user_obj == User(user_data, nextId, clock)
        user_mongo == prepare_for_mongo(user_obj)
    IN  IF existing_user # 0
        THEN /\ Respond("register_user", user_data, 400, NoBody)
             /\ UNCHANGED <<store, clock, nextId, reqs>>
        ELSE /\ Len(users) < MaxUsers
             /\ users' = insert_one(users, user_mongo)
             /\ clock' = clock + 1
             /\ nextId' = nextId + 1
             /\ Respond("register_user", user_data, 200,
                        <<UserResponse(user_obj)>>)
             /\ UNCHANGED <<jobs, applications, reqs>>

login_user(login_data) ==
    LET user == find_one(users, LoginQuery(login_data))
    IN  /\ IF user = 0
           THEN Respond("login_user", login_data, 401, NoBody)
           ELSE IF UserResponseRaises(parse_from_mongo(users[user]))
           THEN Respond("login_user", login_data, 500, NoBody)
           ELSE Respond("login_user", login_data, 200,
                        <<UserResponse(parse_from_mongo(users[user]))>>)
        /\ UNCHANGED <<store, clock, nextId, reqs>>

get_user(user_id) ==
    LET user == find_one(users, [id |-> user_id])
        arg == [user_id |-> user_id]
    IN  /\ IF user = 0
           THEN Respond("get_user", arg, 404, NoBody)
           ELSE IF UserResponseRaises(parse_from_mongo(users[user]))
           THEN Respond("get_user", arg, 500, NoBody)
           ELSE Respond("get_user", arg, 200,
                        <<UserResponse(parse_from_mongo(users[user]))>>)
        /\ UNCHANGED <<store, clock, nextId, reqs>>

\* an update that answers 200 whether or not the user is found
update_user_profile_NoCheck(user_id, profile_data) ==
    /\ users' = update_one(users, [id |-> user_id], profile_data)
    /\ Respond("update_user_profile",
               [user_id |-> user_id, profile_data |-> profile_data],
               200, NoBody)
    /\ UNCHANGED <<jobs, applications, clock, nextId, reqs>>

update_user_profile(user_id, profile_data) ==
    LET user == find_one(users, [id |-> user_id])
        arg == [user_id |-> user_id, profile_data |-> profile_data]
    IN  IF user = 0
        THEN /\ Respond("update_user_profile", arg, 404, NoBody)
             /\ UNCHANGED <<store, clock, nextId, reqs>>
        ELSE /\ users' = update_one(users, [id |-> user_id], profile_data)
             /\ Respond("update_user_profile", arg, 200, NoBody)
             /\ UNCHANGED <<jobs, applications, clock, nextId, reqs>>

create_job(job_data, employer_id) ==
    LET job_dict == [key \in DOMAIN job_data \cup {"employer_id"} |->
                        IF key = "employer_id" THEN employer_id
                        ELSE job_data[key]]
        job_obj == Job(job_dict, nextId, clock)
        job_mongo == prepare_for_mongo(job_obj)
    IN  /\ Len(jobs) < MaxJobs
        /\ jobs' = insert_one(jobs, job_mongo)
        /\ clock' = clock + 1
        /\ nextId' = nextId + 1
        /\ Respond("create_job", job_dict, 200, <<JobResponse(job_obj)>>)
        /\ UNCHANGED <<users, applications, reqs>>

\* a query dict that leaves the status out
JobsQuery_AnyStatus(search, location, job_type) ==
    [exact |-> IF Truthy(job_type) THEN [job_type |-> job_type]
               ELSE << >>,
     or |-> IF Truthy(search) THEN search ELSE None,
     location |-> IF Truthy(location) THEN location ELSE None]

\* the query dict of get_jobs: the exact matches, the pattern of the $or
\* over title, company and description, and the pattern on location
JobsQuery(search, location, job_type) ==
    [exact |-> IF Truthy(job_type)
               THEN [status |-> Str("active"), job_type |-> job_type]
               ELSE [status |-> Str("active")],
     or |-> IF Truthy(search) THEN search ELSE None,
     location |-> IF Truthy(location) THEN location ELSE None]

JobMatches(job, query) ==
    /\ Matches(job, query.exact)
    /\ query.or # None =>
          \/ regex_i(query.or, job.title)
          \/ regex_i(query.or, job.company)
          \/ regex_i(query.or, job.description)
    /\ query.location # None => regex_i(query.location, job.location)

\* cursor.sort(key, -1): the documents in descending order of the key; the
\* order among documents with equal keys is the server's choice.  The keys
\* are ISO-8601 texts of UTC instants, whose order as strings is the order
\* of the instants.
sort_desc(docs, key) ==
    { [i \in 1..Len(docs) |-> docs[p[i]]] :
        p \in { q \in Permutations(1..Len(docs)) :
                  \A i, j \in 1..Len(docs) :
                      i < j => docs[q[i]][key].t >= docs[q[j]][key].t } }

\* cursor.skip(skip).limit(limit) on the sorted documents; a limit of 0 is
\* no limit
skip_limit(docs, skip, limit) ==
    LET upto == IF limit = 0 \/ skip + limit > Len(docs) THEN Len(docs)
                ELSE skip + limit
    IN  SubSeq(docs, skip + 1, upto)

ParseAll(docs) == [i \in 1..Len(docs) |-> parse_from_mongo(docs[i])]

\* [JobResponse(**job) for job in jobs].  The status is 500 when one raises
JobResponses(docs) ==
    IF \E i \in 1..Len(docs) : JobResponseRaises(docs[i])
    THEN [status |-> 500, body |-> NoBody]
    ELSE [status |-> 200,
          body |-> [i \in 1..Len(docs) |-> JobResponse(docs[i])]]

get_jobs(skip, limit, search, location, job_type) ==
    LET query == JobsQuery(search, location, job_type)
        found == SelectSeq(jobs, LAMBDA job : JobMatches(job, query))
        arg == [skip |-> IntVal(skip), limit |-> IntVal(limit),
                search |-> search, location |-> location,
                job_type |-> job_type]
    IN  /\ \E sorted \in sort_desc(found, "posted_at") :
              LET r == JobResponses(ParseAll(skip_limit(sorted, skip, limit)))
              IN  Respond("get_jobs", arg, r.status, r.body)
        /\ UNCHANGED <<store, clock, nextId, reqs>>

get_job(job_id) ==
    LET job == find_one(jobs, [id |-> job_id])
        arg == [job_id |-> job_id]
    IN  /\ IF job = 0
           THEN Respond("get_job", arg, 404, NoBody)
           ELSE IF JobResponseRaises(parse_from_mongo(jobs[job]))
           THEN Respond("get_job", arg, 500, NoBody)
           ELSE Respond("get_job", arg, 200,
                        <<JobResponse(parse_from_mongo(jobs[job]))>>)
        /\ UNCHANGED <<store, clock, nextId, reqs>>

get_employer_jobs(employer_id) ==
    LET found == SelectSeq(jobs, LAMBDA job :
                              Matches(job, [employer_id |-> employer_id]))
        arg == [employer_id |-> employer_id]
    IN  /\ \E sorted \in sort_desc(found, "posted_at") :
              LET r == JobResponses(ParseAll(sorted))
              IN  Respond("get_employer_jobs", arg, r.status, r.body)
        /\ UNCHANGED <<store, clock, nextId, reqs>>

\* a pre-check that asks for the job alone
ApplyQuery_JobOnly(application_data, applicant_id) ==
    [job_id |-> application_data.job_id]

\* the query of the pre-check of apply_for_job
ApplyQuery(application_data, applicant_id) ==
    [job_id |-> application_data.job_id, applicant_id |-> applicant_id]

\* response_data: the application, with job_title and company when the job
\* is found and applicant_name when the applicant is (positions in a
\* collection, 0 for None)
Enriched(app, job, applicant) ==
    [key \in DOMAIN app
              \cup (IF job # 0 THEN {"job_title", "company"} ELSE {})
              \cup (IF applicant # 0 THEN {"applicant_name"} ELSE {}) |->
        CASE key = "job_title" -> jobs[job].title
          [] key = "company" -> jobs[job].company
          [] key = "applicant_name" -> users[applicant].name
          [] OTHER -> app[key]]

apply_for_job(application_data, applicant_id) ==
    LET existing_application ==
            find_one(applications, ApplyQuery(application_data, applicant_id))
        app_dict == [job_id |-> application_data.job_id,
                     cover_letter |-> application_data.cover_letter,
                     applicant_id |-> applicant_id]
        app_obj == Application(app_dict, nextId, clock)
        app_mongo == prepare_for_mongo(app_obj)
        job == find_one(jobs, [id |-> application_data.job_id])
        applicant == find_one(users, [id |-> applicant_id])
        response_data == Enriched(app_obj, job, applicant)
    IN  IF existing_application # 0
        THEN /\ Respond("apply_for_job", app_dict, 400, NoBody)
             /\ UNCHANGED <<store, clock, nextId, reqs>>
        ELSE /\ Len(applications) < MaxApps
             /\ applications' = insert_one(applications, app_mongo)
             /\ clock' = clock + 1
             /\ nextId' = nextId + 1
             /\ IF ApplicationResponseRaises(response_data)
                THEN Respond("apply_for_job", app_dict, 500, NoBody)
                ELSE Respond("apply_for_job", app_dict, 200,
                             <<ApplicationResponse(response_data)>>)
             /\ UNCHANGED <<users, jobs, reqs>>

\* [ApplicationResponse(**app_data) ...].  The status is 500 when one raises
ApplicationResponses(datas) ==
    IF \E i \in 1..Len(datas) : ApplicationResponseRaises(datas[i])
    THEN [status |-> 500, body |-> NoBody]
    ELSE [status |-> 200,
          body |-> [i \in 1..Len(datas) |-> ApplicationResponse(datas[i])]]

get_user_applications(user_id) ==
    LET found == SelectSeq(applications, LAMBDA app :
                              Matches(app, [applicant_id |-> user_id]))
        arg == [user_id |-> user_id]
    IN  /\ \E sorted \in sort_desc(found, "applied_at") :
              LET apps == ParseAll(sorted)
                  enriched_apps ==
                      [i \in 1..Len(apps) |->
                          Enriched(apps[i],
                                   find_one(jobs, [id |-> apps[i].job_id]), 0)]
                  r == ApplicationResponses(enriched_apps)
              IN  Respond("get_user_applications", arg, r.status, r.body)
        /\ UNCHANGED <<store, clock, nextId, reqs>>

get_job_applications(job_id) ==
    LET found == SelectSeq(applications, LAMBDA app :
                              Matches(app, [job_id |-> job_id]))
        arg == [job_id |-> job_id]
    IN  /\ \E sorted \in sort_desc(found, "applied_at") :
              LET apps == ParseAll(sorted)
                  enriched_apps ==
                      [i \in 1..Len(apps) |->
                          Enriched(apps[i],
                                   find_one(jobs, [id |-> job_id]),
                                   find_one(users,
                                            [id |-> apps[i].applicant_id]))]
                  r == ApplicationResponses(enriched_apps)
              IN  Respond("get_job_applications", arg, r.status, r.body)
        /\ UNCHANGED <<store, clock, nextId, reqs>>

\* the counts for a job seeker
SeekerStats(user_id) ==
    [total_applications |->
        IntVal(count_documents(applications, [applicant_id |-> user_id])),
     pending |->
        IntVal(count_documents(applications,
                    [applicant_id |-> user_id, status |-> Str("pending")])),
     shortlisted |->
        IntVal(count_documents(applications,
                    [applicant_id |-> user_id,
                     status |-> Str("shortlisted")]))]

\* employer counts whose total_applications counts every stored application
EmployerStats_AllApplications(user_id) ==
    [total_jobs |->
        IntVal(count_documents(jobs, [employer_id |-> user_id])),
     active_jobs |->
        IntVal(count_documents(jobs,
                    [employer_id |-> user_id, status |-> Str("active")])),
     total_applications |-> IntVal(Len(applications))]

\* the counts for an employer: job_ids are the ids of the employer's jobs,
\* and the applications counted are those whose job_id is one of them
EmployerStats(user_id) ==
    LET job_ids == {jobs[i].id : i \in {j \in 1..Len(jobs) :
                        Matches(jobs[j], [employer_id |-> user_id])}}
    IN  [total_jobs |->
            IntVal(count_documents(jobs, [employer_id |-> user_id])),
         active_jobs |->
            IntVal(count_documents(jobs,
                        [employer_id |-> user_id, status |-> Str("active")])),
         total_applications |->
            IntVal(IF job_ids = {} THEN 0
                   ELSE Cardinality({i \in 1..Len(applications) :
                            applications[i].job_id \in job_ids}))]

get_dashboard_stats(user_id, user_type) ==
    LET arg == [user_id |-> user_id, user_type |-> user_type]
    IN  /\ IF user_type = Str("job_seeker")
           THEN Respond("get_dashboard_stats", arg, 200,
                        <<SeekerStats(user_id)>>)
           ELSE Respond("get_dashboard_stats", arg, 200,
                        <<EmployerStats(user_id)>>)
        /\ UNCHANGED <<store, clock, nextId, reqs>>

----------------------------------------------------------------------------
(* Handlers in flight together.  A handler runs until an await and resumes  *)
(* when the store has answered; each step below is one operation on the    *)
(* store with the code that follows it up to the next await.  reqs holds   *)
(* the requests started, with the await each is at (pc) and its locals.    *)

Request(op, arg) ==
    [op |-> op, arg |-> arg, pc |-> "find_one", status |-> 0,
     body |-> NoBody, obj |-> << >>, job |-> 0]

Finish(r, status, body) ==
    reqs' = [reqs EXCEPT ![r].pc = "done", ![r].status = status,
                         ![r].body = body]

At(r, op, pc) == reqs[r].op = op /\ reqs[r].pc = pc

StartRegister(user_data) ==
    /\ Len(reqs) < MaxReqs
    /\ reqs' = Append(reqs, Request("register_user", user_data))
    /\ UNCHANGED <<store, clock, nextId, last>>

\* await db.users.find_one(...), the raise, and the user built for insert
RegisterFindOne(r) ==
    /\ At(r, "register_user", "find_one")
    /\ IF find_one(users, RegisterQuery(reqs[r].arg)) # 0
       THEN /\ Finish(r, 400, NoBody)
            /\ UNCHANGED <<clock, nextId>>
       ELSE /\ reqs' = [reqs EXCEPT
                    ![r].pc = "insert_one",
                    ![r].obj = <<User(reqs[r].arg, nextId, clock)>>]
            /\ clock' = clock + 1
            /\ nextId' = nextId + 1
    /\ UNCHANGED <<store, last>>

\* an insert that a unique index on email refuses
RegisterInsertOne_Unique(r) ==
    /\ At(r, "register_user", "insert_one")
    /\ IF find_one(users, RegisterQuery(reqs[r].arg)) # 0
       THEN Finish(r, 500, NoBody) /\ UNCHANGED users
       ELSE /\ users' = insert_one(users, prepare_for_mongo(reqs[r].obj[1]))
            /\ Finish(r, 200, <<UserResponse(reqs[r].obj[1])>>)
    /\ UNCHANGED <<jobs, applications, clock, nextId, last>>

\* await db.users.insert_one(user_mongo) and the return
RegisterInsertOne(r) ==
    /\ At(r, "register_user", "insert_one")
    /\ users' = insert_one(users, prepare_for_mongo(reqs[r].obj[1]))
    /\ Finish(r, 200, <<UserResponse(reqs[r].obj[1])>>)
    /\ UNCHANGED <<jobs, applications, clock, nextId, last>>

StartApply(application_data, applicant_id) ==
    /\ Len(reqs) < MaxReqs
    /\ reqs' = Append(reqs, Request("apply_for_job",
                    [job_id |-> application_data.job_id,
                     cover_letter |-> application_data.cover_letter,
                     applicant_id |-> applicant_id]))
    /\ UNCHANGED <<store, clock, nextId, last>>

\* await db.applications.find_one(...), the raise, and the application
\* built for insert
ApplyFindOne(r) ==
    /\ At(r, "apply_for_job", "find_one")
    /\ IF find_one(applications,
                   ApplyQuery(reqs[r].arg, reqs[r].arg.applicant_id)) # 0
       THEN /\ Finish(r, 400, NoBody)
            /\ UNCHANGED <<clock, nextId>>
       ELSE /\ reqs' = [reqs EXCEPT
                    ![r].pc = "insert_one",
                    ![r].obj = <<Application(reqs[r].arg, nextId, clock)>>]
            /\ clock' = clock + 1
            /\ nextId' = nextId + 1
    /\ UNCHANGED <<store, last>>

\* an insert that a unique index on (job_id, applicant_id) refuses
ApplyInsertOne_Unique(r) ==
    /\ At(r, "apply_for_job", "insert_one")
    /\ IF find_one(applications,
                   ApplyQuery(reqs[r].arg, reqs[r].arg.applicant_id)) # 0
       THEN Finish(r, 500, NoBody) /\ UNCHANGED applications
       ELSE /\ applications' = insert_one(applications,
                                    prepare_for_mongo(reqs[r].obj[1]))
            /\ reqs' = [reqs EXCEPT ![r].pc = "find_job"]
    /\ UNCHANGED <<users, jobs, clock, nextId, last>>

\* await db.applications.insert_one(app_mongo)
ApplyInsertOne(r) ==
    /\ At(r, "apply_for_job", "insert_one")
    /\ applications' = insert_one(applications,
                                  prepare_for_mongo(reqs[r].obj[1]))
    /\ reqs' = [reqs EXCEPT ![r].pc = "find_job"]
    /\ UNCHANGED <<users, jobs, clock, nextId, last>>

\* job = await db.jobs.find_one(...)
ApplyFindJob(r) ==
    /\ At(r, "apply_for_job", "find_job")
    /\ reqs' = [reqs EXCEPT
            ![r].pc = "find_applicant",
            ![r].job = find_one(jobs, [id |-> reqs[r].arg.job_id])]
    /\ UNCHANGED <<store, clock, nextId, last>>

\* applicant = await db.users.find_one(...) and the return
ApplyFindApplicant(r) ==
    /\ At(r, "apply_for_job", "find_applicant")
    /\ LET applicant == find_one(users, [id |-> reqs[r].arg.applicant_id])
           response_data == Enriched(reqs[r].obj[1], reqs[r].job, applicant)
       IN  IF ApplicationResponseRaises(response_data)
           THEN Finish(r, 500, NoBody)
           ELSE Finish(r, 200, <<ApplicationResponse(response_data)>>)
    /\ UNCHANGED <<store, clock, nextId, last>>

\* create_job up to its await: the job is built, with its id and posted_at
StartCreateJob(job_data, employer_id) ==
    LET job_dict == [key \in DOMAIN job_data \cup {"employer_id"} |->
                        IF key = "employer_id" THEN employer_id
                        ELSE job_data[key]]
    IN  /\ Len(reqs) < MaxReqs
        /\ reqs' = Append(reqs,
                [Request("create_job", job_dict) EXCEPT
                    !.pc = "insert_one",
                    !.obj = <<Job(job_dict, nextId, clock)>>])
        /\ clock' = clock + 1
        /\ nextId' = nextId + 1
        /\ UNCHANGED <<store, last>>

\* await db.jobs.insert_one(job_mongo) and the return
CreateJobInsertOne(r) ==
    /\ At(r, "create_job", "insert_one")
    /\ jobs' = insert_one(jobs, prepare_for_mongo(reqs[r].obj[1]))
    /\ Finish(r, 200, <<JobResponse(reqs[r].obj[1])>>)
    /\ UNCHANGED <<users, applications, clock, nextId, last>>

\* get_dashboard_stats up to its first await, in the branch of user_type
StartStats(user_id, user_type) ==
    /\ Len(reqs) < MaxReqs
    /\ reqs' = Append(reqs,
            [Request("get_dashboard_stats",
                     [user_id |-> user_id, user_type |-> user_type]) EXCEPT
                !.pc = IF user_type = Str("job_seeker")
                       THEN "count_applications" ELSE "count_jobs"])
    /\ UNCHANGED <<store, clock, nextId, last>>

\* applications_count = await db.applications.count_documents(...)
StatsCountApplications(r) ==
    /\ At(r, "get_dashboard_stats", "count_applications")
    /\ reqs' = [reqs EXCEPT
            ![r].pc = "count_pending",
            ![r].obj = <<[total_applications |->
                IntVal(count_documents(applications,
                        [applicant_id |-> reqs[r].arg.user_id]))]>>]
    /\ UNCHANGED <<store, clock, nextId, last>>

\* pending_count = await db.applications.count_documents(...)
StatsCountPending(r) ==
    /\ At(r, "get_dashboard_stats", "count_pending")
    /\ reqs' = [reqs EXCEPT
            ![r].pc = "count_shortlisted",
            ![r].obj = <<[total_applications |->
                            reqs[r].obj[1].total_applications,
                         pending |->
                IntVal(count_documents(applications,
                        [applicant_id |-> reqs[r].arg.user_id,
                         status |-> Str("pending")]))]>>]
    /\ UNCHANGED <<store, clock, nextId, last>>

\* shortlisted_count = await db.applications.count_documents(...) and the
\* return
StatsCountShortlisted(r) ==
    /\ At(r, "get_dashboard_stats", "count_shortlisted")
    /\ Finish(r, 200,
              <<[total_applications |-> reqs[r].obj[1].total_applications,
                 pending |-> reqs[r].obj[1].pending,
                 shortlisted |->
                    IntVal(count_documents(applications,
                            [applicant_id |-> reqs[r].arg.user_id,
                             status |-> Str("shortlisted")]))]>>)
    /\ UNCHANGED <<store, clock, nextId, last>>

\* jobs_count = await db.jobs.count_documents(...)
StatsCountJobs(r) ==
    /\ At(r, "get_dashboard_stats", "count_jobs")
    /\ reqs' = [reqs EXCEPT
            ![r].pc = "count_active",
            ![r].obj = <<[total_jobs |->
                IntVal(count_documents(jobs,
                        [employer_id |-> reqs[r].arg.user_id]))]>>]
    /\ UNCHANGED <<store, clock, nextId, last>>

\* active_jobs = await db.jobs.count_documents(...)
StatsCountActive(r) ==
    /\ At(r, "get_dashboard_stats", "count_active")
    /\ reqs' = [reqs EXCEPT
            ![r].pc = "find_jobs",
            ![r].obj = <<[total_jobs |-> reqs[r].obj[1].total_jobs,
                         active_jobs |->
                IntVal(count_documents(jobs,
                        [employer_id |-> reqs[r].arg.user_id,
                         status |-> Str("active")]))]>>]
    /\ UNCHANGED <<store, clock, nextId, last>>

\* employer_jobs = await db.jobs.find(...).to_list(length=None), job_ids,
\* and the return when there are none
StatsFindJobs(r) ==
    /\ At(r, "get_dashboard_stats", "find_jobs")
    /\ LET job_ids == {jobs[i].id : i \in {j \in 1..Len(jobs) :
                Matches(jobs[j], [employer_id |-> reqs[r].arg.user_id])}}
       IN  IF job_ids = {}
           THEN Finish(r, 200,
                       <<[total_jobs |-> reqs[r].obj[1].total_jobs,
                          active_jobs |-> reqs[r].obj[1].active_jobs,
                          total_applications |-> IntVal(0)]>>)
           ELSE reqs' = [reqs EXCEPT
                    ![r].pc = "count_by_job",
                    ![r].obj = <<[total_jobs |-> reqs[r].obj[1].total_jobs,
                                 active_jobs |-> reqs[r].obj[1].active_jobs,
                                 job_ids |-> job_ids]>>]
    /\ UNCHANGED <<store, clock, nextId, last>>

\* total_applications = await db.applications.count_documents(
\* {"job_id": {"$in": job_ids}}) and the return
StatsCountByJob(r) ==
    /\ At(r, "get_dashboard_stats", "count_by_job")
    /\ Finish(r, 200,
              <<[total_jobs |-> reqs[r].obj[1].total_jobs,
                 active_jobs |-> reqs[r].obj[1].active_jobs,
                 total_applications |->
                    IntVal(Cardinality({i \in 1..Len(applications) :
                        applications[i].job_id \in
                            reqs[r].obj[1].job_ids}))]>>)
    /\ UNCHANGED <<store, clock, nextId, last>>

----------------------------------------------------------------------------
(* Specifications *)

NoRequest == [op |-> "none", arg |-> [none |-> None], status |-> 0,
              body |-> NoBody]

Init ==
    /\ users = << >>
    /\ jobs = << >>
    /\ applications = << >>
    /\ clock = 1
    /\ nextId = 1
    /\ last = NoRequest
    /\ reqs = << >>

\* the user endpoints, one request at a time
NextUsers ==
    \/ \E user_data \in UserCreates : register_user(user_data)
    \/ \E login_data \in UserLogins : login_user(login_data)
    \/ \E user_id \in UserIds : get_user(user_id)
    \/ \E user_id \in UserIds, profile_data \in ProfileDatas :
          update_user_profile(user_id, profile_data)

SpecUsers == Init /\ [][NextUsers]_vars

\* Job documents a store can hold when the server starts: written through
\* Job's schema, with any of its status values ("active", "closed",
\* "draft") and any posted_at
StoredJob(id, job_type, posted_at, status) ==
    [id |-> Uuid(id), title |-> Str("Dev"), company |-> Str("acme"),
     location |-> Str("Paris"), job_type |-> Str(job_type),
     salary_range |-> None, description |-> Str("build things"),
     requirements |-> List("[]"), benefits |-> List("[]"),
     employer_id |-> Uuid(1), posted_at |-> IsoText(posted_at),
     expires_at |-> None, status |-> Str(status)]

StoredJobs ==
    { << >>,
      << StoredJob(101, "full-time", 0, "closed"),
         StoredJob(102, "part-time", 0, "active") >> }

\* the job endpoints, one request at a time, on a store that may hold jobs
InitJobs ==
    /\ users = << >>
    /\ jobs \in StoredJobs
    /\ applications = << >>
    /\ clock = 1
    /\ nextId = 1
    /\ last = NoRequest
    /\ reqs = << >>

NextJobs ==
    \/ \E job_data \in JobCreates, employer_id \in EmployerIds :
          create_job(job_data, employer_id)
    \/ \E skip \in Skips, limit \in Limits, search \in Searches,
          location \in Locations, job_type \in JobTypes :
          get_jobs(skip, limit, search, location, job_type)
    \/ \E job_id \in JobIds : get_job(job_id)
    \/ \E employer_id \in EmployerIds : get_employer_jobs(employer_id)

SpecJobs == InitJobs /\ [][NextJobs]_vars

\* the application endpoints, one request at a time, with the requests
\* that create the users and the jobs the applications name
AppUserCreates ==
    {user_data \in UserCreates : user_data.email = Str("ann@x.io")}
AppJobCreates == {job_data \in JobCreates : job_data.title = Str("Dev")}

NextApps ==
    \/ \E user_data \in AppUserCreates : register_user(user_data)
    \/ \E job_data \in AppJobCreates, employer_id \in EmployerIds :
          Len(jobs) < MaxAppJobs /\ create_job(job_data, employer_id)
    \/ \E application_data \in ApplicationCreates,
          applicant_id \in ApplicantIds :
          apply_for_job(application_data, applicant_id)
    \/ \E user_id \in ApplicantIds : get_user_applications(user_id)
    \/ \E job_id \in AppliedJobIds : get_job_applications(job_id)
    \/ \E user_id \in ApplicantIds, user_type \in UserTypes :
          get_dashboard_stats(user_id, user_type)

SpecApps == Init /\ [][NextApps]_vars

\* the dashboard, one request at a time, on a store that may hold jobs of
\* employer Uuid(1), with the requests that add jobs and applications
StatsEmployerIds == {Uuid(1), Uuid(2)}
StatsJobIds == {Uuid(1), Uuid(101)}
StatsApplicantIds == {Uuid(1)}
StatsApplicationCreates ==
    [job_id : StatsJobIds, cover_letter : {Str("hire me")}]

NextStats ==
    \/ \E job_data \in AppJobCreates, employer_id \in StatsEmployerIds :
          create_job(job_data, employer_id)
    \/ \E application_data \in StatsApplicationCreates,
          applicant_id \in StatsApplicantIds :
          apply_for_job(application_data, applicant_id)
    \/ \E user_id \in StatsEmployerIds, user_type \in UserTypes :
          get_dashboard_stats(user_id, user_type)

SpecStats == InitJobs /\ [][NextStats]_vars

\* the listings of applications, one request at a time, with the requests
\* that create, and rename, what the applications name
ListProfileDatas == {profile_data \in ProfileDatas :
                        DOMAIN profile_data = {"name"}}
CoverLetters == {Str("hire me"), IsoText(0)}
ListApplicationCreates == [job_id : AppliedJobIds, cover_letter : CoverLetters]
ListApplicantIds == {Uuid(1)}

NextLists ==
    \/ \E user_data \in AppUserCreates : register_user(user_data)
    \/ \E user_id \in ApplicantIds, profile_data \in ListProfileDatas :
          update_user_profile(user_id, profile_data)
    \/ \E job_data \in AppJobCreates, employer_id \in EmployerIds :
          Len(jobs) < MaxAppJobs /\ create_job(job_data, employer_id)
    \/ \E application_data \in ListApplicationCreates,
          applicant_id \in ListApplicantIds :
          apply_for_job(application_data, applicant_id)
    \/ \E user_id \in ApplicantIds : get_user_applications(user_id)
    \/ \E job_id \in AppliedJobIds : get_job_applications(job_id)

SpecLists == Init /\ [][NextLists]_vars

\* every endpoint, one request at a time: a job seeker and a user of a
\* user_type of their own register, profiles are patched in their id and
\* user_type, a job is posted and applied for
AllUserCreates ==
    AppUserCreates \cup
    { [email |-> Str("bob@x.io"), password |-> Str("pw1"),
       name |-> Str("Bob"), user_type |-> Str("admin")] }
AllUserLogins == {login_data \in UserLogins :
                     login_data.password = Str("pw1")}
AllProfileDatas == { [id |-> Uuid(0)], [user_type |-> Str("admin")] }

NextAll ==
    \/ \E user_data \in AllUserCreates : register_user(user_data)
    \/ \E login_data \in AllUserLogins : login_user(login_data)
    \/ \E user_id \in UserIds : get_user(user_id)
    \/ \E user_id \in UserIds, profile_data \in AllProfileDatas :
          update_user_profile(user_id, profile_data)
    \/ \E job_data \in AppJobCreates, employer_id \in EmployerIds :
          Len(jobs) < MaxAppJobs /\ create_job(job_data, employer_id)
    \/ get_jobs(DefaultSkip, DefaultLimit, None, None, None)
    \/ \E job_id \in AppliedJobIds : get_job(job_id)
    \/ \E employer_id \in EmployerIds : get_employer_jobs(employer_id)
    \/ \E application_data \in ApplicationCreates,
          applicant_id \in ListApplicantIds :
          Len(applications) < MaxAllApps
          /\ apply_for_job(application_data, applicant_id)
    \/ \E user_id \in ListApplicantIds : get_user_applications(user_id)
    \/ \E job_id \in AppliedJobIds : get_job_applications(job_id)
    \/ \E user_id \in ListApplicantIds, user_type \in UserTypes :
          get_dashboard_stats(user_id, user_type)

Spec == Init /\ [][NextAll]_vars

\* Register and Apply requests in flight together, their store operations
\* interleaved in any order
RaceUserCreates ==
    {user_data \in UserCreates : user_data.email = Str("bob@x.io")}
RaceApplicantIds == {Uuid(1)}

NextRace ==
    \/ \E user_data \in RaceUserCreates : StartRegister(user_data)
    \/ \E application_data \in ApplicationCreates,
          applicant_id \in RaceApplicantIds :
          StartApply(application_data, applicant_id)
    \/ \E r \in 1..Len(reqs) : RegisterFindOne(r)
    \/ \E r \in 1..Len(reqs) : RegisterInsertOne(r)
    \/ \E r \in 1..Len(reqs) : ApplyFindOne(r)
    \/ \E r \in 1..Len(reqs) : ApplyInsertOne(r)
    \/ \E r \in 1..Len(reqs) : ApplyFindJob(r)
    \/ \E r \in 1..Len(reqs) : ApplyFindApplicant(r)

SpecRace == Init /\ [][NextRace]_vars

\* Dashboard, Create job and Apply requests of one user in flight together,
\* their store operations interleaved in any order
NextStatsRace ==
    \/ \E job_data \in AppJobCreates, employer_id \in EmployerIds :
          StartCreateJob(job_data, employer_id)
    \/ \E application_data \in ApplicationCreates,
          applicant_id \in RaceApplicantIds :
          StartApply(application_data, applicant_id)
    \/ \E user_id \in RaceApplicantIds, user_type \in UserTypes :
          StartStats(user_id, user_type)
    \/ \E r \in 1..Len(reqs) : CreateJobInsertOne(r)
    \/ \E r \in 1..Len(reqs) : ApplyFindOne(r)
    \/ \E r \in 1..Len(reqs) : ApplyInsertOne(r)
    \/ \E r \in 1..Len(reqs) : ApplyFindJob(r)
    \/ \E r \in 1..Len(reqs) : ApplyFindApplicant(r)
    \/ \E r \in 1..Len(reqs) : StatsCountApplications(r)
    \/ \E r \in 1..Len(reqs) : StatsCountPending(r)
    \/ \E r \in 1..Len(reqs) : StatsCountShortlisted(r)
    \/ \E r \in 1..Len(reqs) : StatsCountJobs(r)
    \/ \E r \in 1..Len(reqs) : StatsCountActive(r)
    \/ \E r \in 1..Len(reqs) : StatsFindJobs(r)
    \/ \E r \in 1..Len(reqs) : StatsCountByJob(r)

SpecStatsRace == Init /\ [][NextStatsRace]_vars

----------------------------------------------------------------------------
(* Claims about the user endpoints, under SpecUsers *)

HasEmail(e) == \E i \in 1..Len(users) : users[i].email = e

\* C1: processed one at a time, Register with email e answers 400 exactly
\* when a user with email e is stored at the time of the request, and then
\* leaves the users collection unchanged; otherwise it answers 200 and adds
\* exactly one user (with that email, and the id it returns).  So a Register
\* that follows a successful Register of the same email answers 400.
C1_RegisterConflict ==
    [][last'.op = "register_user" =>
        /\ IF HasEmail(last'.arg.email)
           THEN last'.status = 400 /\ users' = users
           ELSE /\ last'.status = 200
                /\ Len(users') = Len(users) + 1
                /\ SubSeq(users', 1, Len(users)) = users
                /\ users'[Len(users')].email = last'.arg.email
                /\ users'[Len(users')].id = last'.body[1].id
        /\ (/\ last.op = "register_user" /\ last.status = 200
            /\ last'.arg.email = last.arg.email) => last'.status = 400
    ]_vars

\* a Register was refused for an email that is stored, right after the
\* Register that stored it
C1_Witness ==
    /\ last.op = "register_user" /\ last.status = 400
    /\ Len(users) = 1 /\ users[1].email = last.arg.email

\* C2: no two stored users have the same email, whatever Register and
\* Update-profile requests were processed, one at a time.
C2_EmailUnique ==
    \A i, j \in 1..Len(users) : users[i].email = users[j].email => i = j

\* the response of a Login, for C6
C6_LoginResponse ==
    last.op = "login_user" =>
        LET hits == {i \in 1..Len(users) :
                        /\ users[i].email = last.arg.email
                        /\ users[i].password = last.arg.password}
        IN  IF hits # {}
            THEN /\ last.status = 200
                 /\ \E i \in hits : last.body[1].id = users[i].id
            ELSE last.status = 401

\* C6: Login answers 200 exactly when some stored user has both the email
\* and the password, and then returns the id of such a user; in every other
\* case it answers 401; and Login never changes the store.
C6_Login ==
    /\ []C6_LoginResponse
    /\ [][last'.op = "login_user" => UNCHANGED store]_vars

----------------------------------------------------------------------------
(* Claims about the job endpoints, under SpecJobs *)

JobCreateFields ==
    {"title", "company", "location", "job_type", "salary_range",
     "description", "requirements", "benefits"}

\* C7: Create job returns the payload's fields as sent, the employer_id
\* and status "active", and a Get job of the returned id that follows at
\* once answers 200 with the same value in every field.
C7_CreateThenGet ==
    [][/\ last'.op = "create_job" =>
            /\ last'.status = 200
            /\ \A key \in JobCreateFields \cup {"employer_id"} :
                    last'.body[1][key] = last'.arg[key]
            /\ last'.body[1].status = Str("active")
       /\ (/\ last.op = "create_job" /\ last'.op = "get_job"
           /\ last'.arg.job_id = last.body[1].id) =>
            /\ last'.status = 200
            /\ last'.body = last.body
    ]_vars

\* C8, as claimed: every job List jobs returns has status "active", and
\* when a job_type parameter is sent every returned job has that job_type.
C8_ListFilters_Claimed ==
    last.op = "get_jobs" =>
        \A i \in 1..Len(last.body) :
            /\ last.body[i].status = Str("active")
            /\ last.arg.job_type # None =>
                    last.body[i].job_type = last.arg.job_type

\* C8, amended: every job List jobs returns has status "active", and when
\* a non-empty job_type parameter is sent every returned job has that
\* job_type (an empty job_type is no filter).
C8_ListFilters ==
    last.op = "get_jobs" =>
        \A i \in 1..Len(last.body) :
            /\ last.body[i].status = Str("active")
            /\ Truthy(last.arg.job_type) =>
                    last.body[i].job_type = last.arg.job_type

\* List jobs with a job_type returned a job, while the store holds a job
\* of that type that is not active and an active job of another type
C8_Witness ==
    /\ last.op = "get_jobs" /\ Truthy(last.arg.job_type)
    /\ Len(last.body) >= 1
    /\ \E i, j \in 1..Len(jobs) :
          /\ jobs[i].job_type = last.arg.job_type
          /\ jobs[i].status # Str("active")
          /\ jobs[j].job_type # last.arg.job_type
          /\ jobs[j].status = Str("active")

MatchingJobs(arg) ==
    SelectSeq(jobs, LAMBDA job :
        /\ job.status = Str("active")
        /\ arg.job_type # None => job.job_type = arg.job_type
        /\ arg.search # None =>
              \/ regex_i(arg.search, job.title)
              \/ regex_i(arg.search, job.company)
              \/ regex_i(arg.search, job.description)
        /\ arg.location # None => regex_i(arg.location, job.location))

\* C9: List jobs returns the matching jobs in non-increasing posted_at
\* order, without the first skip of them, and at most limit of them.
C9_Page ==
    (last.op = "get_jobs" /\ last.status = 200) =>
        LET skip == last.arg.skip.t
            limit == last.arg.limit.t
            matching == MatchingJobs(last.arg)
            rest == IF Len(matching) > skip THEN Len(matching) - skip ELSE 0
        IN  /\ \A i, j \in 1..Len(last.body) :
                  i < j => last.body[i].posted_at.t >= last.body[j].posted_at.t
            /\ Len(last.body) <= limit
            /\ Len(last.body) = IF rest < limit THEN rest ELSE limit
            /\ \E sorted \in sort_desc(matching, "posted_at") :
                  \A i \in 1..Len(last.body) :
                      last.body[i].id = sorted[skip + i].id

----------------------------------------------------------------------------
(* Claims about the application endpoints, under SpecApps *)

HasApplication(job_id, applicant_id) ==
    \E i \in 1..Len(applications) :
        /\ applications[i].job_id = job_id
        /\ applications[i].applicant_id = applicant_id

AtMostOnePerPair ==
    \A i, j \in 1..Len(applications) :
        (/\ applications[i].job_id = applications[j].job_id
         /\ applications[i].applicant_id = applications[j].applicant_id)
        => i = j

\* C3: processed one at a time, Apply for (job_id, applicant_id) answers
\* 400 and leaves the applications unchanged exactly when an application
\* for the pair is stored, and otherwise answers 200 and adds exactly one
\* application, for that pair; so the store never holds two applications
\* for one pair.
C3_ApplyOnce ==
    /\ [][last'.op = "apply_for_job" =>
            IF HasApplication(last'.arg.job_id, last'.arg.applicant_id)
            THEN last'.status = 400 /\ applications' = applications
            ELSE /\ last'.status = 200
                 /\ Len(applications') = Len(applications) + 1
                 /\ SubSeq(applications', 1, Len(applications))
                        = applications
                 /\ LET new == applications'[Len(applications')]
                    IN  /\ new.job_id = last'.arg.job_id
                        /\ new.applicant_id = last'.arg.applicant_id
                        /\ new.id = last'.body[1].id
       ]_vars
    /\ []AtMostOnePerPair

\* an Apply was refused for a pair that has its one application stored,
\* beside an application of the same applicant for another job
C3_Witness ==
    /\ last.op = "apply_for_job" /\ last.status = 400
    /\ Len(applications) = 2
    /\ applications[1].job_id # applications[2].job_id
    /\ HasApplication(last.arg.job_id, last.arg.applicant_id)

----------------------------------------------------------------------------
(* Claims about requests in flight together, under SpecRace *)

\* request r has passed its pre-check and finished
PassedAndDone(r, op) ==
    reqs[r].op = op /\ reqs[r].pc = "done" /\ reqs[r].obj # << >>

\* C4: two Register requests with the same unused email whose lookups both
\* ran before either insert both pass the pre-check and both answer 200, and
\* the store then holds two users with different ids and that email.
C4_RegisterRace ==
    \A r1, r2 \in 1..Len(reqs) :
        (/\ r1 # r2
         /\ PassedAndDone(r1, "register_user")
         /\ PassedAndDone(r2, "register_user")
         /\ reqs[r1].arg.email = reqs[r2].arg.email)
        => /\ reqs[r1].status = 200 /\ reqs[r2].status = 200
           /\ \E i, j \in 1..Len(users) :
                 /\ users[i].id = reqs[r1].body[1].id
                 /\ users[j].id = reqs[r2].body[1].id
                 /\ users[i].id # users[j].id
                 /\ users[i].email = reqs[r1].arg.email
                 /\ users[j].email = reqs[r1].arg.email

\* both Register requests answered 200 for one email, two users stored
C4_Witness ==
    /\ Len(reqs) = 2
    /\ PassedAndDone(1, "register_user") /\ PassedAndDone(2, "register_user")
    /\ reqs[1].arg.email = reqs[2].arg.email
    /\ reqs[1].status = 200 /\ reqs[2].status = 200
    /\ Len(users) = 2 /\ users[1].email = users[2].email
    /\ users[1].id # users[2].id

\* C5: two Apply requests for the same pair whose lookups both ran before
\* either insert both pass the pre-check and both answer 200, and the store
\* then holds two applications for the pair.
C5_ApplyRace ==
    \A r1, r2 \in 1..Len(reqs) :
        (/\ r1 # r2
         /\ PassedAndDone(r1, "apply_for_job")
         /\ PassedAndDone(r2, "apply_for_job")
         /\ reqs[r1].arg.job_id = reqs[r2].arg.job_id
         /\ reqs[r1].arg.applicant_id = reqs[r2].arg.applicant_id)
        => /\ reqs[r1].status = 200 /\ reqs[r2].status = 200
           /\ \E i, j \in 1..Len(applications) :
                 /\ i # j
                 /\ applications[i].id = reqs[r1].body[1].id
                 /\ applications[j].id = reqs[r2].body[1].id
                 /\ applications[i].job_id = reqs[r1].arg.job_id
                 /\ applications[j].job_id = reqs[r1].arg.job_id
                 /\ applications[i].applicant_id = reqs[r1].arg.applicant_id
                 /\ applications[j].applicant_id = reqs[r1].arg.applicant_id

\* both Apply requests answered 200 for one pair, two applications stored
C5_Witness ==
    /\ Len(reqs) = 2
    /\ PassedAndDone(1, "apply_for_job") /\ PassedAndDone(2, "apply_for_job")
    /\ reqs[1].status = 200 /\ reqs[2].status = 200
    /\ Len(applications) = 2
    /\ applications[1].job_id = applications[2].job_id
    /\ applications[1].applicant_id = applications[2].applicant_id


----------------------------------------------------------------------------
(* Claims about the dashboard, under SpecStats *)

\* the positions of the jobs an employer posted
JobsOf(employer_id) ==
    {i \in 1..Len(jobs) : jobs[i].employer_id = employer_id}

\* C11: a dashboard response for an employer id carries total_jobs = the
\* number of stored jobs with that employer_id, active_jobs = the number of
\* those whose status is "active", and total_applications = the number of
\* stored applications whose job_id is the id of one of those jobs; all
\* three are 0 for an employer without jobs, whatever applications exist
C11_EmployerStats ==
    (last.op = "get_dashboard_stats"
        /\ last.arg.user_type # Str("job_seeker")) =>
        LET mine == JobsOf(last.arg.user_id)
            active == {i \in mine : jobs[i].status = Str("active")}
            counted == {a \in 1..Len(applications) :
                           \E i \in mine :
                               jobs[i].id = applications[a].job_id}
        IN  /\ last.status = 200
            /\ last.body[1].total_jobs = IntVal(Cardinality(mine))
            /\ last.body[1].active_jobs = IntVal(Cardinality(active))
            /\ last.body[1].total_applications = IntVal(Cardinality(counted))
            /\ mine = {} =>
                  /\ last.body[1].total_jobs = IntVal(0)
                  /\ last.body[1].active_jobs = IntVal(0)
                  /\ last.body[1].total_applications = IntVal(0)

\* an employer with a closed job among three is told of the one application
\* to its jobs while the store holds another, to a job that is not its own
C11_Witness ==
    /\ last.op = "get_dashboard_stats"
    /\ last.arg.user_type = Str("employer")
    /\ last.body[1].total_jobs = IntVal(2)
    /\ last.body[1].active_jobs = IntVal(1)
    /\ last.body[1].total_applications = IntVal(1)
    /\ Len(applications) = 2
    /\ Len(jobs) = 3



----------------------------------------------------------------------------
(* Claims about the listings of applications, under SpecLists *)

\* the positions of the stored applications with a given value in a field
AppsWith(field, value) ==
    {a \in 1..Len(applications) : applications[a][field] = value}

\* the entries of a listing answer the stored applications at positions
\* stored, one each
ListsExactly(stored) ==
    /\ last.status = 200
    /\ Len(last.body) = Cardinality(stored)
    /\ {last.body[i].id : i \in 1..Len(last.body)} =
          {applications[a].id : a \in stored}

\* every entry of a listing names the title and the company of the stored
\* job it references
JobFieldsFollow ==
    \A i \in 1..Len(last.body), j \in 1..Len(jobs) :
        jobs[j].id = last.body[i].job_id =>
            /\ last.body[i].job_title = jobs[j].title
            /\ last.body[i].company = jobs[j].company

\* C12: the listing of a user's applications holds exactly the stored
\* applications with that applicant_id, the listing of a job's applications
\* exactly those with that job_id; each entry carries the title and company
\* of the stored job it references and, in the job's listing, the current
\* name of the stored user it references
C12_Listings ==
    /\ last.op = "get_user_applications" =>
          /\ ListsExactly(AppsWith("applicant_id", last.arg.user_id))
          /\ JobFieldsFollow
    /\ last.op = "get_job_applications" =>
          /\ ListsExactly(AppsWith("job_id", last.arg.job_id))
          /\ JobFieldsFollow
          /\ \A i \in 1..Len(last.body), u \in 1..Len(users) :
                users[u].id = last.body[i].applicant_id =>
                    last.body[i].applicant_name = users[u].name

NoJob(job_id) == \A j \in 1..Len(jobs) : jobs[j].id # job_id
NoUser(user_id) == \A u \in 1..Len(users) : users[u].id # user_id

\* the entries of a listing that reference no stored job have no job_title
\* and no company, those that reference no stored user no applicant_name
DanglingFieldsUnset ==
    \A i \in 1..Len(last.body) :
        /\ NoJob(last.body[i].job_id) =>
              /\ last.body[i].job_title = None
              /\ last.body[i].company = None
        /\ NoUser(last.body[i].applicant_id) =>
              last.body[i].applicant_name = None

\* an Apply whose pair is not stored and whose job or applicant is not
\* either answers 200, stores the application and leaves the fields of the
\* missing document unset
DanglingApply ==
    LET arg == last'.arg
        new == applications'[Len(applications')]
    IN  (/\ last'.op = "apply_for_job"
         /\ AppsWith("job_id", arg.job_id)
              \cap AppsWith("applicant_id", arg.applicant_id) = {}
         /\ NoJob(arg.job_id) \/ NoUser(arg.applicant_id)) =>
            /\ last'.status = 200
            /\ Len(applications') = Len(applications) + 1
            /\ new.job_id = arg.job_id
            /\ new.applicant_id = arg.applicant_id
            /\ NoJob(arg.job_id) =>
                  /\ last'.body[1].job_title = None
                  /\ last'.body[1].company = None
            /\ NoUser(arg.applicant_id) =>
                  last'.body[1].applicant_name = None

\* a listing that has to hold an application whose job or applicant is not
\* stored answers 200 and leaves the fields of the missing document unset
DanglingListed ==
    /\ last.op = "get_user_applications" =>
          ((\E a \in AppsWith("applicant_id", last.arg.user_id) :
                \/ NoJob(applications[a].job_id)
                \/ NoUser(applications[a].applicant_id)) =>
              last.status = 200 /\ DanglingFieldsUnset)
    /\ last.op = "get_job_applications" =>
          ((\E a \in AppsWith("job_id", last.arg.job_id) :
                \/ NoJob(applications[a].job_id)
                \/ NoUser(applications[a].applicant_id)) =>
              last.status = 200 /\ DanglingFieldsUnset)

\* C13: Apply for a job_id that matches no stored job, or with an
\* applicant_id that matches no stored user, is not an error: when the pair
\* is not stored it answers 200, stores the application and leaves the
\* enrichment fields of the missing document unset, and the later listings
\* of that application succeed with those fields unset
C13_Dangling == []DanglingListed /\ [][DanglingApply]_vars



----------------------------------------------------------------------------
(* Claims about every endpoint, under Spec *)

\* C14: Get user, Update profile and Get job with an id that matches no
\* stored document answer 404 and leave the three collections unchanged;
\* Update profile with an unknown id never creates a user document
C14_NotFound ==
    [][/\ (last'.op \in {"get_user", "update_user_profile"}
            /\ NoUser(last'.arg.user_id)) =>
              /\ last'.status = 404
              /\ UNCHANGED store
              /\ Len(users') = Len(users)
       /\ (last'.op = "get_job" /\ NoJob(last'.arg.job_id)) =>
              /\ last'.status = 404
              /\ UNCHANGED store]_vars

\* an update for an id that is not stored, on a store with a user and a
\* job, was answered 404
C14_Witness ==
    /\ last.op = "update_user_profile"
    /\ last.status = 404
    /\ NoUser(last.arg.user_id)
    /\ Len(users) = 1
    /\ Len(jobs) = 1

\* the ids uuid4 has produced so far
HandedOut == {Uuid(n) : n \in 1..(nextId - 1)}

\* C15: nothing is ever deleted: a user document with an id that Register
\* returned is present in every later state, and Get user with that id
\* never answers 404, whatever requests are processed in between
C15_NeverDeleted ==
    [][/\ \A id \in HandedOut : ~NoUser(id) => ~NoUser(id)'
       /\ (last'.op = "get_user" /\ ~NoUser(last'.arg.user_id)) =>
              last'.status # 404]_vars

\* C16: every stored user has user_type "job_seeker" or "employer"
C16_UserTypes ==
    \A u \in 1..Len(users) : users[u].user_type \in UserTypes

\* s continues t: t, or t with one document appended
AddsAtMostOne(s, t) ==
    s = t \/ (Len(s) = Len(t) + 1 /\ SubSeq(s, 1, Len(t)) = t)

----------------------------------------------------------------------------
(* Claims about the dashboard among other requests, under SpecStatsRace *)

\* C18: every dashboard response is consistent in itself, whatever requests
\* interleave with its queries: an employer's has active_jobs <=
\* total_jobs, a job seeker's pending + shortlisted <= total_applications
C18_Consistent ==
    \A r \in 1..Len(reqs) :
        At(r, "get_dashboard_stats", "done") =>
            LET stats == reqs[r].body[1] IN
            IF reqs[r].arg.user_type = Str("job_seeker")
            THEN stats.pending.t + stats.shortlisted.t
                    <= stats.total_applications.t
            ELSE stats.active_jobs.t <= stats.total_jobs.t


====
